---- MODULE Spec2Model ----
(***************************************************************************)
(* EDBOWebApiConnector (src/edbo_connector/connector.py): one client       *)
(* object that logs in at construction, re-logs in when the session is     *)
(* older than RELOGIN_AFTER, retries execute on connection failure and     *)
(* logs out at teardown.                                                   *)
(*                                                                         *)
(* The Python call stack is the variable `stack`: execute calls __logout,  *)
(* which calls execute again, so the nesting is part of the state.  Time   *)
(* is counted in ticks, TicksPerSec ticks to the second; time.time() is    *)
(* the wall clock, which normally grows and can be set back by the system. *)
(***************************************************************************)
EXTENDS Integers, Sequences, FiniteSets, TLC

\* ---------------------------------------------------------------- bounds
MaxTime == 7            \* ticks of real time a behaviour lasts
TicksPerSec == 2        \* resolution of the clock
MaxPostDur == 1         \* a request takes 0..MaxPostDur ticks
MaxFails == 1           \* connection failures explored per execute call
RecursionLimit == 5     \* frames before Python raises RecursionError

\* ------------------------------------------------------- configuration
\* config.RELOGIN_AFTER, in seconds
RELOGIN_AFTER == 1
\* config.EXECUTION_TIMEOUT, the pause of time.sleep, here in ticks
EXECUTION_TIMEOUT == 1
\* config.EDBO_USER, config.EDBO_PASSWORD
EDBO_USER == "cfg_user"
EDBO_PASSWORD == "cfg_password"

\* ------------------------------------------------------------- literals
HTTP_OK == 200
HTTP_NO_CONTENT == 204
HTTP_BAD_REQUEST == 400
HTTP_SERVER_ERROR == 500

LOGIN_URL == "oauth/token"
LOGOUT_URL == "auth/logout"
Urls == {"students/list"}

\* what the caller may hand to the constructor
Credentials == {<<EDBO_USER, EDBO_PASSWORD>>, <<"alice", "secret">>}

\* response bodies, as the text the server sends
B_TokA == "{access_token:abc}"
B_TokB == "{access_token:xyz}"
B_Err == "{error:invalid_grant}"
B_Data == "{rows:1}"
B_Empty == ""
B_Html == "<html>"

NoAuth == <<"no-authorization-header", "-">>
NothingSent == <<"nothing-sent", "-">>
NoToken == "no-token"
Unset == -1
NoStatus == 0

\* response.json(): the parsed body; the text that is not JSON does not parse
IsJson(body) == body \in {B_TokA, B_TokB, B_Err, B_Data}

ParseJson(body) ==
    CASE body = B_TokA -> [access_token |-> "abc"]
      [] body = B_TokB -> [access_token |-> "xyz"]
      [] body = B_Err -> [error |-> "invalid_grant"]
      [] body = B_Data -> [rows |-> 1]

\* dict.get(key, default)
Get(obj, key, default) == IF key \in DOMAIN obj THEN obj[key] ELSE default

\* 'Bearer ' + token
Bearer(token) == <<"Bearer", token>>

\* int(x) for x = ticks / TicksPerSec: truncation toward zero
IntSeconds(ticks) ==
    IF ticks >= 0 THEN ticks \div TicksPerSec ELSE -((-ticks) \div TicksPerSec)

\* what the token endpoint may answer; the token it issues is a fresh one,
\* never the one the session already carries
LoginResponses(current) ==
    [status : {HTTP_OK, HTTP_BAD_REQUEST, HTTP_SERVER_ERROR},
     body : {IF current = Bearer("abc") THEN B_TokB ELSE B_TokA, B_Err, B_Html}]

ExecResponses ==
    {[status |-> HTTP_OK, body |-> B_Data],
     [status |-> HTTP_OK, body |-> B_Html],
     [status |-> HTTP_NO_CONTENT, body |-> B_Empty],
     [status |-> HTTP_SERVER_ERROR, body |-> B_Html]}

VARIABLES
    phase,               \* new, init, returned, ready, call, del, garbage, destroyed, exited
    stack,               \* the call stack below the caller, innermost frame last
    now,                 \* time.time(), in ticks
    real,                \* the time that has really passed, in ticks
    status,              \* self._status
    execution_time,      \* self._execution_time, in ticks
    is_logged_in,        \* self._is_logged_in
    session_start_time,  \* self._session_start_time, Unset before the first login
    authorization,       \* the 'authorization' header of self._session
    result,              \* what the caller's last call returned or raised
    ctor,                \* the credentials given to the constructor
    reqs,                \* requests answered during the current top-level call
    topExpired,          \* the current top-level call found the session expired
    lastLogin,           \* the last answered login request
    lastExec,            \* the last answered execute request
    lastDone,            \* the last answered request of any kind
    sentAuth,            \* authorization header of the last POST of execute
                         \* since the last login that brought a token
    issued,              \* the token of the last login that brought one
    op                   \* the top-level operation: none, init, execute,
                         \* del_logout, del_skip

vars == <<phase, stack, now, real, status, execution_time, is_logged_in,
          session_start_time, authorization, result, ctor, reqs, topExpired,
          lastLogin, lastExec, lastDone, sentAuth, issued, op>>

client == <<status, execution_time, is_logged_in, session_start_time, authorization>>
ghosts == <<reqs, topExpired, lastLogin, lastExec, lastDone, sentAuth, issued, op>>

\* ---------------------------------------------------------------- frames
NoFrameField == "-"

LoginFrame(username, password) ==
    [fn |-> "login", pc |-> "post", url |-> LOGIN_URL, json_format |-> TRUE,
     username |-> username, password |-> password,
     execution_start |-> Unset, began |-> Unset, first_began |-> Unset,
     fails |-> 0, posts |-> 0, sleeps |-> 0, was_logged_in |-> FALSE]

LogoutFrame ==
    [fn |-> "logout", pc |-> "call", url |-> LOGOUT_URL, json_format |-> TRUE,
     username |-> NoFrameField, password |-> NoFrameField,
     execution_start |-> Unset, began |-> Unset, first_began |-> Unset,
     fails |-> 0, posts |-> 0, sleeps |-> 0, was_logged_in |-> FALSE]

ExecuteFrame(url, json_format) ==
    [fn |-> "execute", pc |-> "check", url |-> url, json_format |-> json_format,
     username |-> NoFrameField, password |-> NoFrameField,
     execution_start |-> Unset, began |-> Unset, first_began |-> Unset,
     fails |-> 0, posts |-> 0, sleeps |-> 0, was_logged_in |-> FALSE]

Top == stack[Len(stack)]
Rest == SubSeq(stack, 1, Len(stack) - 1)
Running == stack # <<>> /\ phase \in {"init", "call", "del"}
At(fn, pc) == Running /\ Top.fn = fn /\ Top.pc = pc
ReplaceTop(f) == Append(Rest, f)

\* the phase once the outermost frame has returned
PhaseAfterReturn == IF phase = "del" THEN "destroyed" ELSE "returned"
\* the phase once an exception has left the outermost frame: the constructor's
\* caller gets no object, execute's caller gets the exception, __del__ ignores it
PhaseAfterRaise ==
    CASE phase = "init" -> "garbage"
      [] phase = "call" -> "returned"
      [] phase = "del" -> "destroyed"

NoResult == [kind |-> "none", val |-> "-"]
Raised(exc) == [kind |-> "raised", val |-> exc]

NoLogin == [status |-> NoStatus, token |-> NoToken, at |-> Unset, dur |-> 0,
            username |-> NoFrameField, password |-> NoFrameField, relogin |-> FALSE,
            logged_before |-> FALSE]
NoExec == [url |-> "-", status |-> NoStatus, body |-> B_Empty, json_format |-> TRUE,
           fails |-> 0, posts |-> 0, sleeps |-> 0, dur |-> 0, total |-> 0,
           top |-> FALSE]
NoDone == [kind |-> "none", status |-> NoStatus, dur |-> 0]

Init ==
    /\ phase = "new"
    /\ stack = <<>>
    /\ now = 0
    /\ real = 0
    /\ status = NoStatus
    /\ execution_time = 0
    /\ is_logged_in = FALSE
    /\ session_start_time = Unset
    /\ authorization = NoAuth
    /\ result = NoResult
    /\ ctor = <<NoFrameField, NoFrameField>>
    /\ reqs = <<>>
    /\ topExpired = FALSE
    /\ lastLogin = NoLogin
    /\ lastExec = NoExec
    /\ lastDone = NoDone
    /\ sentAuth = NothingSent
    /\ issued = NoToken
    /\ op = "none"


\* ---------------------------------------------------------- environment
\* d ticks pass: the wall clock follows the real time
Pass(d) ==
    /\ real + d <= MaxTime
    /\ real' = real + d
    /\ now' = now + d

\* the clock advances while the caller is between calls
Tick ==
    /\ phase = "ready"
    /\ Pass(1)
    /\ UNCHANGED <<phase, stack, client, result, ctor, ghosts>>

\* time.time() is the system's wall clock: it can be set back at any moment
ClockSetBack ==
    /\ phase \in {"init", "returned", "ready", "call", "del"}
    /\ \E t \in 0..(now - 1) : now' = t
    /\ UNCHANGED <<real, phase, stack, client, result, ctor, ghosts>>

\* EDBOWebApiHelper.echo(..., force_exit=True): the process ends
ForceExit == "exited"

\* ------------------------------------------------------------- __init__
Construct ==
    /\ phase = "new"
    /\ \E c \in Credentials :
        /\ ctor' = c
        /\ stack' = <<LoginFrame(c[1], c[2])>>
    /\ phase' = "init"
    /\ status' = NoStatus
    /\ execution_time' = 0
    /\ is_logged_in' = FALSE
    /\ authorization' = NoAuth
    /\ reqs' = <<>>
    /\ op' = "init"
    /\ UNCHANGED <<now, session_start_time, result, topExpired,
                   lastLogin, lastExec, lastDone, sentAuth, issued>>
    /\ UNCHANGED real

\* -------------------------------------------------------------- __login
\* the ghost record of an answered login request
LoginGhost(r, d) ==
    [status |-> r.status,
     token |-> IF IsJson(r.body) THEN Get(ParseJson(r.body), "access_token", NoToken)
               ELSE NoToken,
     at |-> now + d, dur |-> d,
     username |-> Top.username, password |-> Top.password,
     relogin |-> Len(stack) > 1, logged_before |-> is_logged_in]

LoginAnswered(r, d) ==
    /\ Pass(d)
    /\ lastLogin' = LoginGhost(r, d)
    /\ lastDone' = [kind |-> "login", status |-> r.status, dur |-> d]
    /\ reqs' = Append(reqs, [url |-> LOGIN_URL, status |-> r.status])
    /\ IF r.status = HTTP_OK /\ LoginGhost(r, d).token # NoToken
       THEN issued' = LoginGhost(r, d).token /\ sentAuth' = NothingSent
       ELSE UNCHANGED <<issued, sentAuth>>
    /\ UNCHANGED <<ctor, topExpired, lastExec, op>>

\* self._session_start_time = time.time(), taken once the response is there
SessionStart(before, after) == after

\* a variant that leaves the session's header as it was
LoginHeaderKept(old, token) == old

\* the 'authorization' header after a login that answered 200 with a token
LoginHeader(old, token) == Bearer(token)

\* status 200 and a body that holds an access_token
LoginOk ==
    /\ At("login", "post")
    /\ \E r \in LoginResponses(authorization), d \in 0..MaxPostDur :
        /\ r.status = HTTP_OK
        /\ IsJson(r.body)
        /\ Get(ParseJson(r.body), "access_token", NoToken) # NoToken
        /\ LoginAnswered(r, d)
        /\ session_start_time' = SessionStart(now, now + d)
        /\ status' = r.status
        /\ is_logged_in' = TRUE
        /\ authorization' =
              LoginHeader(authorization, Get(ParseJson(r.body), "access_token", NoToken))
    /\ stack' = Rest
    /\ phase' = IF Rest = <<>> THEN PhaseAfterReturn ELSE phase
    /\ result' = IF Rest = <<>> THEN [kind |-> "object", val |-> "-"] ELSE result
    /\ UNCHANGED execution_time

\* status 200 and a body that is no JSON (response.json() raises ValueError)
\* or has no access_token ('Bearer ' + None raises TypeError): the fields set
\* before line 123 are set, the header is not
LoginOkBadBody ==
    /\ At("login", "post")
    /\ \E r \in LoginResponses(authorization), d \in 0..MaxPostDur :
        /\ r.status = HTTP_OK
        /\ \/ ~IsJson(r.body)
           \/ IsJson(r.body) /\ Get(ParseJson(r.body), "access_token", NoToken) = NoToken
        /\ LoginAnswered(r, d)
        /\ session_start_time' = SessionStart(now, now + d)
        /\ status' = r.status
        /\ is_logged_in' = TRUE
        /\ result' = Raised(IF IsJson(r.body) THEN "TypeError" ELSE "ValueError")
    /\ stack' = <<>>
    /\ phase' = PhaseAfterRaise
    /\ UNCHANGED <<execution_time, authorization>>

\* status 400 with a JSON body: the error is echoed with force_exit
Login400 ==
    /\ At("login", "post")
    /\ \E r \in LoginResponses(authorization), d \in 0..MaxPostDur :
        /\ r.status = HTTP_BAD_REQUEST
        /\ IsJson(r.body)
        /\ LoginAnswered(r, d)
    /\ stack' = <<>>
    /\ phase' = ForceExit
    /\ UNCHANGED <<client, result>>

\* status 400 with a body that is no JSON: response.json() raises before echo
Login400BadBody ==
    /\ At("login", "post")
    /\ \E r \in LoginResponses(authorization), d \in 0..MaxPostDur :
        /\ r.status = HTTP_BAD_REQUEST
        /\ ~IsJson(r.body)
        /\ LoginAnswered(r, d)
    /\ stack' = <<>>
    /\ phase' = PhaseAfterRaise
    /\ result' = Raised("ValueError")
    /\ UNCHANGED client

\* any other status
LoginOther ==
    /\ At("login", "post")
    /\ \E r \in LoginResponses(authorization), d \in 0..MaxPostDur :
        /\ r.status \notin {HTTP_OK, HTTP_BAD_REQUEST}
        /\ LoginAnswered(r, d)
    /\ stack' = <<>>
    /\ phase' = ForceExit
    /\ UNCHANGED <<client, result>>

\* a variant that lets the exception reach the caller
ConnectionErrorPropagates == PhaseAfterRaise

\* lines 143-149: the except branch of __login echoes with force_exit
ExceptConnectionError == ForceExit

\* requests.exceptions.ConnectionError: no response, force_exit
LoginConnectionError ==
    /\ At("login", "post")
    /\ \E d \in 0..MaxPostDur :
        /\ Pass(d)
    /\ stack' = <<>>
    /\ phase' = ExceptConnectionError
    /\ UNCHANGED <<client, result, ctor, ghosts>>

\* -------------------------------------------------------------- execute
\* int(time.time() - self._session_start_time) > config.RELOGIN_AFTER
Expired(t) == IntSeconds(t - session_start_time) > RELOGIN_AFTER

\* the caller calls execute(url, data, headers, json_format)
CallExecute ==
    /\ phase = "ready"
    /\ \E url \in Urls, json_format \in BOOLEAN :
        stack' = <<ExecuteFrame(url, json_format)>>
    /\ phase' = "call"
    /\ result' = NoResult
    /\ reqs' = <<>>
    /\ topExpired' = FALSE
    /\ op' = "execute"
    /\ UNCHANGED <<now, client, ctor, lastLogin, lastExec, lastDone, sentAuth, issued>>
    /\ UNCHANGED real

\* the frame whose expiry check stands for the whole top-level call: the
\* caller's execute, or the execute that __del__'s __logout calls
OutermostExecute == Len(stack) = (IF phase = "del" THEN 2 ELSE 1)

\* the session is expired: call self.__logout(), then (line 181) self.__login()
CheckExpired ==
    /\ At("execute", "check")
    /\ Expired(now)
    /\ Len(stack) + 1 <= RecursionLimit
    /\ stack' = Append(ReplaceTop([Top EXCEPT !.pc = "relogin"]),
                       [LogoutFrame EXCEPT !.was_logged_in = is_logged_in])
    /\ topExpired' = IF OutermostExecute THEN TRUE ELSE topExpired
    /\ UNCHANGED <<phase, now, client, result, ctor, reqs,
                   lastLogin, lastExec, lastDone, sentAuth, issued, op>>
    /\ UNCHANGED real

CheckNotExpired ==
    /\ At("execute", "check")
    /\ ~Expired(now)
    /\ stack' = ReplaceTop([Top EXCEPT !.pc = "sleep"])
    /\ UNCHANGED <<phase, now, client, result, ctor, ghosts>>
    /\ UNCHANGED real

\* self.__login() of line 181: the defaults of __login, not the constructor's
Relogin ==
    /\ At("execute", "relogin")
    /\ stack' = Append(ReplaceTop([Top EXCEPT !.pc = "sleep"]),
                       LoginFrame(EDBO_USER, EDBO_PASSWORD))
    /\ UNCHANGED <<phase, now, client, result, ctor, ghosts>>
    /\ UNCHANGED real

\* time.sleep(config.EXECUTION_TIMEOUT)
Sleep ==
    /\ At("execute", "sleep")
    /\ Pass(EXECUTION_TIMEOUT)
    /\ stack' = ReplaceTop([Top EXCEPT !.pc = "post", !.sleeps = Top.sleeps + 1])
    /\ UNCHANGED <<phase, client, result, ctor, ghosts>>

\* a variant that takes execution_start once, before the loop
ExecutionStartBeforeLoop(frame, t) == IF frame.posts = 0 THEN t ELSE frame.execution_start

\* execution_start = time.time(), inside the loop
ExecutionStart(frame, t) == t

\* self._session.post(url, data, headers): the third positional parameter of
\* Session.post is json, so the headers of the call never reach the request
\* and the session's own headers are what is sent
RequestAuthorization(session_header, call_headers) == session_header

\* the headers argument of the call: the caller's choice, None from __logout
CallHeaders(frame) ==
    IF frame.url = LOGOUT_URL THEN {NoAuth} ELSE {NoAuth, Bearer("caller")}

\* one pass of the loop up to the POST being on its way
BeginAttempt ==
    /\ At("execute", "post")
    /\ stack' = ReplaceTop([Top EXCEPT !.pc = "inflight",
                                       !.execution_start = ExecutionStart(Top, now),
                                       !.began = now,
                                       !.first_began =
                                           IF Top.posts = 0 THEN now ELSE Top.first_began,
                                       !.posts = Top.posts + 1])
    /\ \E headers \in CallHeaders(Top) :
        sentAuth' = RequestAuthorization(authorization, headers)
    /\ UNCHANGED <<phase, now, client, result, ctor, reqs, topExpired,
                   lastLogin, lastExec, lastDone, issued, op>>
    /\ UNCHANGED real

\* a variant whose loop starts at the pause of line 184
RetryFromSleep == "sleep"

\* continue: the next pass starts at line 187, after the pause
RetryFrom == "post"

\* a variant that forgets the last status when an attempt fails
StatusOnConnectionErrorReset(s) == NoStatus

\* the except branch of lines 203-210 assigns nothing
StatusOnConnectionError(s) == s

\* requests.exceptions.ConnectionError: continue
PostConnectionError ==
    /\ At("execute", "inflight")
    /\ Top.fails < MaxFails
    /\ \E d \in 0..MaxPostDur :
        /\ Pass(d)
    /\ stack' = ReplaceTop([Top EXCEPT !.pc = RetryFrom, !.fails = Top.fails + 1])
    /\ status' = StatusOnConnectionError(status)
    /\ UNCHANGED <<phase, execution_time, is_logged_in, session_start_time,
                   authorization, result, ctor, ghosts>>

\* a variant that returns the body for every status
ReturnValueAnyStatus(r, json_format) ==
    IF json_format
    THEN [kind |-> "json", val |-> IF IsJson(r.body) THEN ParseJson(r.body) ELSE [rows |-> 0]]
    ELSE [kind |-> "response", val |-> r]

\* lines 229-232
ReturnValue(r, json_format) ==
    IF r.status = HTTP_OK
    THEN IF json_format
         THEN [kind |-> "json", val |-> ParseJson(r.body)]
         ELSE [kind |-> "response", val |-> r]
    ELSE [kind |-> "None", val |-> "-"]

\* response.json() raises on a 200 whose body is no JSON
ReturnRaises(r, json_format) == r.status = HTTP_OK /\ json_format /\ ~IsJson(r.body)

\* a variant that restarts the session's age at every answered request
SessionStartRenewed(old, t) == t

\* lines 213-227 assign _execution_time and _status only
SessionStartAfterRequest(old, t) == old

\* a response: lines 202, 213-227
Answered(r, d) ==
    /\ Pass(d)
    /\ execution_time' = (now + d) - Top.execution_start
    /\ status' = r.status
    /\ lastExec' = [url |-> Top.url, status |-> r.status, body |-> r.body,
                    json_format |-> Top.json_format, fails |-> Top.fails,
                    posts |-> Top.posts, sleeps |-> Top.sleeps,
                    dur |-> (now + d) - Top.began,
                    total |-> (now + d) - Top.first_began,
                    top |-> (Len(stack) = 1)]
    /\ lastDone' = [kind |-> "execute", status |-> r.status, dur |-> (now + d) - Top.began]
    /\ reqs' = Append(reqs, [url |-> Top.url, status |-> r.status])
    /\ session_start_time' = SessionStartAfterRequest(session_start_time, now + d)
    /\ UNCHANGED <<is_logged_in, authorization, ctor,
                   topExpired, lastLogin, sentAuth, issued, op>>

ExecuteReturns ==
    /\ At("execute", "inflight")
    /\ \E r \in ExecResponses, d \in 0..MaxPostDur :
        /\ ~ReturnRaises(r, Top.json_format)
        /\ Answered(r, d)
        /\ result' = IF Rest = <<>> THEN ReturnValue(r, Top.json_format) ELSE result
    /\ stack' = Rest
    /\ phase' = IF Rest = <<>> THEN PhaseAfterReturn ELSE phase

ExecuteBadJson ==
    /\ At("execute", "inflight")
    /\ \E r \in ExecResponses, d \in 0..MaxPostDur :
        /\ ReturnRaises(r, Top.json_format)
        /\ Answered(r, d)
    /\ result' = Raised("ValueError")
    /\ stack' = <<>>
    /\ phase' = PhaseAfterRaise

\* ------------------------------------------------------------- __logout
\* self.execute('auth/logout')
LogoutCall ==
    /\ At("logout", "call")
    /\ Len(stack) + 1 <= RecursionLimit
    /\ stack' = Append(ReplaceTop([Top EXCEPT !.pc = "check"]),
                       ExecuteFrame(LOGOUT_URL, TRUE))
    /\ UNCHANGED <<phase, now, client, result, ctor, ghosts>>
    /\ UNCHANGED real

\* a variant that takes 200 for the status of a logout
LogoutClearsOn200(s) == s = HTTP_OK

\* a variant that clears the flag whatever the status
LogoutClearsAlways(s) == TRUE

\* a variant that clears the flag on every status below 500
LogoutClearsUnlessServerError(s) == s # HTTP_SERVER_ERROR

\* if self.status == 204
LogoutClears(s) == s = HTTP_NO_CONTENT

LogoutCheck ==
    /\ At("logout", "check")
    /\ is_logged_in' = IF LogoutClears(status) THEN FALSE ELSE is_logged_in
    /\ stack' = Rest
    /\ phase' = IF Rest = <<>> THEN PhaseAfterReturn ELSE phase
    /\ UNCHANGED <<now, status, execution_time, session_start_time,
                   authorization, result, ctor, ghosts>>
    /\ UNCHANGED real

\* the interpreter's recursion limit: the call that would exceed it raises
\* RecursionError, which no frame catches
RecursionError ==
    /\ \/ At("execute", "check") /\ Expired(now)
       \/ At("logout", "call")
    /\ Len(stack) + 1 > RecursionLimit
    /\ stack' = <<>>
    /\ phase' = PhaseAfterRaise
    /\ result' = Raised("RecursionError")
    /\ topExpired' = IF At("execute", "check") /\ OutermostExecute THEN TRUE ELSE topExpired
    /\ UNCHANGED <<now, client, ctor, reqs, lastLogin, lastExec, lastDone, sentAuth,
                   issued, op>>
    /\ UNCHANGED real

\* the caller has looked at what its call returned or raised and goes on
CallerContinues ==
    /\ phase = "returned"
    /\ phase' = "ready"
    /\ result' = NoResult
    /\ reqs' = <<>>
    /\ topExpired' = FALSE
    /\ lastExec' = NoExec
    /\ lastLogin' = NoLogin
    /\ op' = "none"
    /\ UNCHANGED <<stack, now, client, ctor, lastDone, sentAuth, issued>>
    /\ UNCHANGED real

\* -------------------------------------------------------------- __del__
TeardownLogout ==
    /\ phase \in {"ready", "garbage"}
    /\ is_logged_in
    /\ phase' = "del"
    /\ stack' = <<[LogoutFrame EXCEPT !.was_logged_in = is_logged_in]>>
    /\ reqs' = <<>>
    /\ topExpired' = FALSE
    /\ result' = NoResult
    /\ op' = "del_logout"
    /\ UNCHANGED <<now, client, ctor, lastLogin, lastExec, lastDone, sentAuth, issued>>
    /\ UNCHANGED real

TeardownSkip ==
    /\ phase \in {"ready", "garbage"}
    /\ ~is_logged_in
    /\ phase' = "destroyed"
    /\ op' = "del_skip"
    /\ UNCHANGED <<stack, now, client, result, ctor, reqs, topExpired, lastLogin,
                   lastExec, lastDone, sentAuth, issued>>
    /\ UNCHANGED real

Next ==
    \/ Tick
    \/ ClockSetBack
    \/ Construct
    \/ LoginOk
    \/ LoginOkBadBody
    \/ Login400
    \/ Login400BadBody
    \/ LoginOther
    \/ LoginConnectionError
    \/ CallExecute
    \/ CallerContinues
    \/ CheckExpired
    \/ CheckNotExpired
    \/ Relogin
    \/ Sleep
    \/ BeginAttempt
    \/ PostConnectionError
    \/ ExecuteReturns
    \/ ExecuteBadJson
    \/ LogoutCall
    \/ LogoutCheck
    \/ RecursionError
    \/ TeardownLogout
    \/ TeardownSkip

Spec == Init /\ [][Next]_vars


\* ================================================================ claims
\* the server behaved: no call ended in an error of decoding a response
ServerBehaved == ~(result.kind = "raised" /\ result.val \in {"ValueError", "TypeError"})

\* C1: an execute call that finds the session older than RELOGIN_AFTER sends
\* exactly one logout request, then exactly one login request (answered 200),
\* and then the request it was called for
C1_ExpiredExecuteReloginsOnce ==
    (phase = "returned" /\ op = "execute" /\ topExpired /\ ServerBehaved)
        => /\ Len(reqs) = 3
           /\ reqs[1].url = LOGOUT_URL
           /\ reqs[2] = [url |-> LOGIN_URL, status |-> HTTP_OK]
           /\ reqs[3].url \in Urls

\* C2: an execute call that meets N connection failures and then a response
\* has made N + 1 POSTs, ends with that response, and leaves in
\* execution_time the duration of the last POST alone
C2_RetryUntilResponse ==
    lastExec # NoExec
        => /\ lastExec.posts = lastExec.fails + 1
           /\ execution_time = lastExec.dur

C2_Witness ==
    /\ phase = "returned"
    /\ lastExec.top
    /\ lastExec.fails = MaxFails
    /\ lastExec.total > lastExec.dur
    /\ execution_time = lastExec.dur

\* a step in which a login request is answered
LoginStep == lastLogin' # lastLogin /\ lastLogin' # NoLogin

\* C3: a login answered 200 (the first or a later one) sets is_logged_in,
\* sets session_start_time to the time of the response, and its token is the
\* authorization header of every request sent afterwards
C3_LoginOkSetsSession ==
    [][/\ (LoginStep /\ lastLogin'.status = HTTP_OK)
            => /\ is_logged_in'
               /\ session_start_time' = lastLogin'.at
               /\ lastLogin'.token # NoToken
                    => authorization' = Bearer(lastLogin'.token)
       /\ (issued' # NoToken /\ sentAuth' # NothingSent)
            => sentAuth' = Bearer(issued')]_vars

C3_Witness ==
    /\ lastLogin.status = HTTP_OK
    /\ lastLogin.relogin
    /\ lastLogin.dur > 0
    /\ lastLogin.token = "xyz"
    /\ session_start_time = lastLogin.at
    /\ sentAuth = Bearer("xyz")
    /\ is_logged_in

\* C4: a login answered with a status other than 200, the login of expiry
\* handling included, ends the process with is_logged_in false
C4_FailedLoginEndsLoggedOut ==
    (phase = "exited" /\ lastLogin.status \notin {NoStatus, HTTP_OK}) => ~is_logged_in

\* C5: the session carries an authorization header only while is_logged_in
\* is true
C5_TokenOnlyWhileLoggedIn == authorization # NoAuth => is_logged_in

\* C6: status and execution_time are those of the request answered last,
\* be it a login, a logout or another execute
C6_LastRequestRecorded ==
    (phase \in {"returned", "ready", "call", "del"} /\ lastDone # NoDone)
        => /\ status = lastDone.status
           /\ execution_time = lastDone.dur

\* C7: an execute call that got a response returns the parsed body (json_format)
\* or the response itself (not json_format) on status 200, and on any other
\* status returns None without an error, the status being left in self.status
C7_ReturnValue ==
    (phase = "returned" /\ op = "execute" /\ lastExec.top)
        => /\ (lastExec.status = HTTP_OK /\ lastExec.json_format /\ IsJson(lastExec.body))
                => result = [kind |-> "json", val |-> ParseJson(lastExec.body)]
           /\ (lastExec.status = HTTP_OK /\ ~lastExec.json_format)
                => /\ result.kind = "response"
                   /\ result.val = [status |-> lastExec.status, body |-> lastExec.body]
           /\ lastExec.status # HTTP_OK
                => /\ result = [kind |-> "None", val |-> "-"]
                   /\ status = lastExec.status

C7_Witness ==
    /\ phase = "returned"
    /\ lastExec.top
    /\ lastExec.status = HTTP_OK
    /\ lastExec.json_format
    /\ result.kind = "json"
    /\ result.val = [rows |-> 1]

\* the step in which __logout returns after its execute has returned
LogoutReturns == At("logout", "check") /\ stack' = Rest

\* C8: __logout sends execute('auth/logout') and clears is_logged_in exactly
\* when that request is answered 204; otherwise is_logged_in stays as it was
C8_LogoutClearsOn204 ==
    [][LogoutReturns
        => /\ lastExec.url = LOGOUT_URL
           /\ is_logged_in' =
                (IF lastExec.status = HTTP_NO_CONTENT THEN FALSE ELSE is_logged_in)]_vars

C8_Witness ==
    /\ phase = "destroyed"
    /\ op = "del_logout"
    /\ lastExec.url = LOGOUT_URL
    /\ lastExec.status = HTTP_NO_CONTENT
    /\ ~is_logged_in

\* C9 as stated: after every completed logout attempt, whatever the status of
\* its response, is_logged_in is false
C9_LoggedOutAfterAnyLogout == [][LogoutReturns => ~is_logged_in']_vars

\* C9 amended: is_logged_in becomes true only by a login answered 200 and
\* becomes false only by a logout answered 204; a logout answered otherwise
\* leaves it true
C9_LoggedInUntilLogout204 ==
    [][/\ (~is_logged_in /\ is_logged_in')
            => (LoginStep /\ lastLogin'.status = HTTP_OK)
       /\ (is_logged_in /\ ~is_logged_in')
            => (LogoutReturns /\ lastExec.status = HTTP_NO_CONTENT)
       /\ (LogoutReturns /\ is_logged_in /\ lastExec.status # HTTP_NO_CONTENT)
            => is_logged_in']_vars

C9_Witness ==
    /\ phase = "destroyed"
    /\ op = "del_logout"
    /\ result.kind # "raised"
    /\ lastExec.url = LOGOUT_URL
    /\ lastExec.status = HTTP_SERVER_ERROR
    /\ is_logged_in

\* C10: when __del__ finds is_logged_in true, exactly one auth/logout request
\* is sent and teardown completes, however old the session is
C10_TeardownLogsOutOnce ==
    (phase = "destroyed" /\ op = "del_logout")
        => /\ Len(reqs) = 1
           /\ reqs[1].url = LOGOUT_URL
           /\ result # Raised("RecursionError")

\* C11: a logout that is called while is_logged_in is false returns with
\* is_logged_in false, whatever the status of its auth/logout request
C11_LogoutIdempotent ==
    [][(LogoutReturns /\ ~Top.was_logged_in) => ~is_logged_in']_vars

\* the step of a login request that gets no response
LoginConnectionFails == At("login", "post") /\ stack' # stack /\ reqs' = reqs

\* C12: a connection failure of a login request, the first or a re-login,
\* ends the process at once: no second attempt, is_logged_in, the session
\* start and the authorization header are what they were before the attempt
C12_LoginConnectionFailureExits ==
    [][LoginConnectionFails
          => /\ phase' = "exited"
             /\ stack' = <<>>
             /\ is_logged_in' = is_logged_in
             /\ session_start_time' = session_start_time
             /\ authorization' = authorization
             /\ lastLogin' = lastLogin]_vars

C12_Witness ==
    /\ phase = "exited"
    /\ op = "execute"
    /\ reqs = <<[url |-> LOGOUT_URL, status |-> HTTP_NO_CONTENT]>>
    /\ lastLogin = NoLogin
    /\ ~is_logged_in
    /\ session_start_time # Unset
    /\ authorization = Bearer("abc")

\* C13: the transitions of the client's state machine: is_logged_in rises only
\* by a login answered 200 and falls only by a logout answered 204, the fatal
\* exit is entered only from a login that failed, and after teardown or the
\* fatal exit no request is sent
C13_StateMachine ==
    [][/\ (~is_logged_in /\ is_logged_in')
            => (LoginStep /\ lastLogin'.status = HTTP_OK)
       /\ (is_logged_in /\ ~is_logged_in')
            => (LogoutReturns /\ lastExec.status = HTTP_NO_CONTENT)
       /\ (phase # "exited" /\ phase' = "exited")
            => /\ At("login", "post")
               /\ \/ LoginConnectionFails
                  \/ LoginStep /\ lastLogin'.status # HTTP_OK
       /\ (phase \in {"destroyed", "exited"})
            => /\ phase' = phase
               /\ reqs' = reqs
               /\ sentAuth' = sentAuth]_vars

\* logged in, expired, logged in again with a new token, logged out at teardown
C13_Witness ==
    /\ phase = "destroyed"
    /\ op = "del_logout"
    /\ issued = "xyz"
    /\ authorization = Bearer("xyz")
    /\ reqs = <<[url |-> LOGOUT_URL, status |-> HTTP_NO_CONTENT]>>
    /\ ~is_logged_in

\* C14: every call of execute pauses exactly once, after the expiry handling
\* and before its first POST; a failed attempt is followed by the next POST
\* without another pause, so an answered call has slept once however many
\* attempts failed
C14_SleepsOnce ==
    /\ lastExec # NoExec => lastExec.sleeps = 1
    /\ \A i \in 1..Len(stack) :
         stack[i].fn = "execute"
            => /\ stack[i].pc \in {"check", "relogin", "sleep"}
                    => (stack[i].sleeps = 0 /\ stack[i].posts = 0)
               /\ stack[i].pc \in {"post", "inflight"} => stack[i].sleeps = 1

C14_Witness ==
    /\ phase = "returned"
    /\ topExpired
    /\ Len(reqs) = 3
    /\ lastExec.top
    /\ lastExec.fails = MaxFails
    /\ lastExec.posts = MaxFails + 1
    /\ lastExec.sleeps = 1

\* the step that puts a POST of a caller's execute on its way
CallerRequestSent == At("execute", "post") /\ Top.url \in Urls /\ stack' # stack

\* C15: every request the caller issues through execute is sent while
\* is_logged_in is true and carries the token of the most recent login that
\* answered 200
C15_RequestsCarryCurrentToken ==
    [][CallerRequestSent
          => /\ is_logged_in
             /\ issued # NoToken
             /\ sentAuth' = Bearer(issued)]_vars

\* C16: the login of the expiry handling sends the username and password that
\* the constructor was given
C16_ReloginUsesConstructorCredentials ==
    (lastLogin # NoLogin /\ lastLogin.relogin)
        => <<lastLogin.username, lastLogin.password>> = ctor

\* the expiry test of an execute call and what it decided
ExpiryTested == At("execute", "check") /\ stack' # stack
ExpiryHandled ==
    \/ Len(stack') = Len(stack) + 1 /\ stack'[Len(stack')].fn = "logout"
    \/ result' = Raised("RecursionError")

\* C17: the expiry handling starts if and only if the time since
\* session_start_time is greater than the threshold, by however little
C17_ExpiryIffElapsedExceeds ==
    [][ExpiryTested
          => (ExpiryHandled <=> (now - session_start_time > RELOGIN_AFTER * TicksPerSec))]_vars

\* the step of an execute attempt that gets no response
AttemptFails ==
    /\ At("execute", "inflight")
    /\ Len(stack') = Len(stack)
    /\ stack'[Len(stack')].fails = Top.fails + 1

C19_SessionStartOnlyByLogin ==
    [][session_start_time' # session_start_time
          => /\ LoginStep
             /\ lastLogin'.status = HTTP_OK
             /\ session_start_time' = lastLogin'.at]_vars

\* a call of execute that failed once and was then answered, two ticks or more
\* after the login of the constructor, with the session start still that login's
C19_Witness ==
    /\ phase = "returned"
    /\ op = "execute"
    /\ ~topExpired
    /\ lastLogin = NoLogin
    /\ lastExec.top
    /\ lastExec.fails = MaxFails
    /\ session_start_time = MaxPostDur
    /\ now >= session_start_time + 2
    /\ now = real

====
